---- MODULE Spec2Model ----
(***************************************************************************)
(* Real-time chat delivery core: the Hub (chat/hub.go), the Session with   *)
(* its read and write loops (chat/client.go), the Domain Operations        *)
(* (chat/room.go), the storage operations they call (database/postgres.go) *)
(* and the REST join / leave handlers (handlers/rooms.go).                 *)
(***************************************************************************)
EXTENDS Integers, Sequences, FiniteSets, TLC

(* ------------------------------ bounds -------------------------------- *)

\* Connections accepted over a run (Session objects ever constructed).
MaxSessions == 2
\* Client requests served over a run: inbound frames handed to handleMessage
\* and REST join / leave requests.
MaxOps == 2
\* Capacity of a Session's outbound queue (256 in the source, scaled down).
SendCap == 2
\* Capacity of the Hub's broadcast channel (256 in the source, scaled down).
BroadcastCap == 1
\* Largest timestamp a message.read submits where the claims compare several.
MaxStamp == 2

Users == {"u1", "u2"}
Rooms == {"r1"}
\* The rooms of the rooms table: r1 and a second room, r2.
AllRooms == Rooms \cup {"r2"}
Contents == {"hi"}
Sessions == 1 .. MaxSessions
\* The zero value of a map lookup that misses: no *Client.
NoClient == 0
\* Client-supplied RFC 3339 timestamps of message.read, as clock readings.
Timestamps == 1 .. 1
\* The same, where a claim is about several timestamps for one membership.
ReadTimestamps == 1 .. MaxStamp

(* ------------------------------ state --------------------------------- *)

VARIABLES
    nconn,      \* Sessions constructed so far by ServeWS
    sessUser,   \* Client.UserID
    pc,         \* where the Session's ServeWS / readPump goroutine stands
    wp,         \* where the Session's writePump goroutine stands
    rooms,      \* Client.rooms
    send,       \* Client.send: the frames buffered in the channel
    closed,     \* Client.send has been closed
    pending,    \* the BroadcastMessage a handler is sending on Hub.broadcast
    clients,    \* Hub.clients
    broadcast,  \* Hub.broadcast: the messages buffered in the channel
    hubSeq,     \* number of broadcasts Hub.Run has received
    presence,   \* per user, the status of the last presence.update broadcast
    members,    \* rows of room_members
    lastRead,   \* room_members.last_read_at
    messages,   \* rows of messages, in insertion order
    atAppend,   \* per message, the room's members when it was inserted
    readAt,     \* per membership, the latest timestamp a message.read stored
    unread,     \* running sendUnreadUpdates goroutines
    nops,       \* client requests served so far
    shut,       \* main has called Hub.Shutdown
    drops,      \* number of frames read and dropped without any effect
    hook,       \* the refs and the sockets of the client's useWebSocket hook
    panic       \* the Go runtime panic that ended the process, "" if none

vars == <<nconn, sessUser, pc, wp, rooms, send, closed, pending,
          clients, broadcast, hubSeq, presence,
          members, lastRead, messages, atAppend, readAt,
          unread, nops, shut, drops, hook, panic>>

sessVars == <<nconn, sessUser, pc, wp, rooms, send, closed, pending>>
hubVars == <<clients, broadcast, hubSeq, presence>>
dbVars == <<members, lastRead, messages, atAppend, readAt>>

(* --------------------------- protocol frames --------------------------- *)

\* An encoded outbound frame.  room / user / arg / num carry the payload
\* fields of the frame's kind; n is 0 until Hub.Run tags the copy it enqueues
\* with the ordinal of the broadcast it comes from.
NewWSMessage(type, room, user, arg, num) ==
    [type |-> type, room |-> room, user |-> user, arg |-> arg, num |-> num, n |-> 0]

RoomFrameTypes == {"message.new", "typing.update", "read_receipt.update",
                   "room.member_joined", "room.member_left"}

\* A BroadcastMessage.  byMember is not a field of the struct: Submit records
\* in it whether the issuing user was a persisted member of the room when the
\* operation ran.
BroadcastMessage(room, data, exclude) ==
    [room |-> room, data |-> data, exclude |-> exclude, byMember |-> FALSE]

NoBroadcast == BroadcastMessage("", NewWSMessage("", "", "", "", 0), "-")

(* ------------------------------ storage -------------------------------- *)

\* The clock NOW() reads: it advances with every inserted message.
Now == Len(messages)

\* IsRoomMember answering yes whatever the table holds.
IsRoomMemberAlways(r, u) == TRUE

IsRoomMember(r, u) == <<r, u>> \in members

GetRoomsForUser(u) == {r \in AllRooms : <<r, u>> \in members}

GetRoomMembers(r) == {u \in Users : <<r, u>> \in members}

\* INSERT ... ON CONFLICT DO NOTHING: an existing row keeps its last_read_at.
AddRoomMemberRows(r, u) == members \cup {<<r, u>>}

\* AddRoomMemberLastRead as an upsert that stamps the row again.
AddRoomMemberLastReadReset(r, u) == [lastRead EXCEPT ![<<r, u>>] = Now]

AddRoomMemberLastRead(r, u) ==
    IF <<r, u>> \in members THEN lastRead
    ELSE [lastRead EXCEPT ![<<r, u>>] = Now]

RemoveRoomMemberRows(r, u) == members \ {<<r, u>>}

RemoveRoomMemberLastRead(r, u) == [lastRead EXCEPT ![<<r, u>>] = 0]

\* UPDATE room_members SET last_read_at = $1 WHERE room_id = $2 AND user_id = $3
UpdateLastRead(r, u, t) ==
    IF <<r, u>> \in members THEN [lastRead EXCEPT ![<<r, u>>] = t] ELSE lastRead

\* INSERT INTO messages ... RETURNING: the row's id is its position and its
\* created_at the clock after the insert.
CreateMessage(r, u) ==
    Append(messages, [room |-> r, sender |-> u, created_at |-> Now + 1])

GetUnreadCount(r, u) ==
    IF <<r, u>> \in members
    THEN Cardinality({i \in 1 .. Len(messages) :
                        /\ messages[i].room = r
                        /\ messages[i].created_at > lastRead[<<r, u>>]
                        /\ messages[i].sender # u})
    ELSE 0

(* ------------------------- channel primitives -------------------------- *)

\* The Sessions a clients map holds.
LiveSessions(cl) == {cl[u] : u \in Users} \ {NoClient}

\* HasRoom with the capacity off by one.
HasRoomOffByOne(q, s) == Len(q[s]) + 1 < SendCap

\* select { case c.send <- data: ... default: ... } takes the send case when
\* the channel has buffer space.
HasRoom(q, s) == Len(q[s]) < SendCap

\* The non-blocking enqueue of sendError, the pong reply, SendToUser and
\* broadcastPresence: the frame is dropped when the queue is full.
TrySend(q, s, f) == IF HasRoom(q, s) THEN [q EXCEPT ![s] = Append(@, f)] ELSE q

(* ----------------------- client: useWebSocket hook --------------------- *)

\* The WebSocket objects one mounted hook creates in a run.
MaxSockets == 3

MAX_RECONNECT_ATTEMPTS == 10

\* The refs of the hook after its first render.  socks holds the readyState
\* of every WebSocket created so far ("closed" once its close event has been
\* dispatched), ws is wsRef (0 for null), token says whether tokenRef holds a
\* token, timer whether the reconnect timeout is pending, ping is the socket
\* whose onopen started the running ping interval (0 for none).  timerStale
\* is not a ref: it records that the pending timeout was armed by the close
\* event of a socket that was not wsRef.current.
HookInit ==
    [socks |-> <<>>, ws |-> 0, intentional |-> FALSE, token |-> FALSE,
     attempts |-> 0, timer |-> FALSE, timerStale |-> FALSE, ping |-> 0,
     isConnected |-> FALSE, mounted |-> TRUE]

\* WebSocket.close(): a socket that is connecting or open starts closing, its
\* close event comes later as a task of its own; otherwise nothing happens.
close(socks, k) ==
    IF k # 0 /\ socks[k] \in {"connecting", "open"}
    THEN [socks EXCEPT ![k] = "closing"] ELSE socks

\* connectWs(token): the old socket, if any, is closed with its handlers left
\* in place, and wsRef is set to a new socket.
connectWs(h) ==
    [h EXCEPT !.intentional = FALSE,
              !.token = TRUE,
              !.socks = Append(close(h.socks, h.ws), "connecting"),
              !.ws = Len(h.socks) + 1]

\* The handler ws.onclose of socket k: it looks at the refs, never at whether
\* its own socket is still wsRef.current.
onclose(h, k) ==
    LET h1 == [h EXCEPT !.isConnected = FALSE, !.ping = 0] IN
    IF ~h.intentional /\ h.token /\ h.attempts < MAX_RECONNECT_ATTEMPTS
    THEN [h1 EXCEPT !.attempts = @ + 1, !.timer = TRUE, !.timerStale = (h.ws # k)]
    ELSE h1

\* The state after NewHub, with the given rows in room_members.
Start(rows) ==
    /\ nconn = 0
    /\ sessUser = [s \in Sessions |-> ""]
    /\ pc = [s \in Sessions |-> "unborn"]
    /\ wp = [s \in Sessions |-> "unborn"]
    /\ rooms = [s \in Sessions |-> {}]
    /\ send = [s \in Sessions |-> <<>>]
    /\ closed = [s \in Sessions |-> FALSE]
    /\ pending = [s \in Sessions |-> NoBroadcast]
    /\ clients = [u \in Users |-> NoClient]
    /\ broadcast = <<>>
    /\ hubSeq = 0
    /\ presence = [u \in Users |-> ""]
    /\ members = rows
    /\ lastRead = [p \in AllRooms \X Users |-> 0]
    /\ messages = <<>>
    /\ atAppend = <<>>
    /\ readAt = [p \in AllRooms \X Users |-> 0]
    /\ unread = {}
    /\ nops = 0
    /\ shut = FALSE
    /\ drops = 0
    /\ hook = HookInit
    /\ panic = ""

\* The server starts with u1 the only member of r1.
Init == Start({<<"r1", "u1">>})

\* The server starts with every user a member of r1.
InitJoined == Start(Rooms \X Users)

\* A goroutine that panics ends the process: nothing runs afterwards.
Panic(why) ==
    /\ panic' = why
    /\ UNCHANGED <<sessVars, hubVars, dbVars, unread, nops, shut, drops, hook>>

(* ------------------------- Connection Endpoint ------------------------- *)

\* ServeWS with a valid token for user u, up to the send on Hub.register.
ServeWS(u) ==
    /\ panic = ""
    /\ nconn < MaxSessions
    /\ LET s == nconn + 1 IN
        /\ nconn' = s
        /\ sessUser' = [sessUser EXCEPT ![s] = u]
        /\ rooms' = [rooms EXCEPT ![s] = GetRoomsForUser(u)]
        /\ pc' = [pc EXCEPT ![s] = "register"]
    /\ UNCHANGED <<wp, send, closed, pending, hubVars, dbVars, unread,
                   nops, shut, drops, hook, panic>>

\* ServeWS with a valid token for user u when database.GetRoomsForUser
\* returns an error: the rooms map stays empty and the Session is handed to
\* the Hub all the same.
ServeWSLookupErr(u) ==
    /\ panic = ""
    /\ nconn < MaxSessions
    /\ LET s == nconn + 1 IN
        /\ nconn' = s
        /\ sessUser' = [sessUser EXCEPT ![s] = u]
        /\ rooms' = [rooms EXCEPT ![s] = {}]
        /\ pc' = [pc EXCEPT ![s] = "register"]
    /\ UNCHANGED <<wp, send, closed, pending, hubVars, dbVars, unread,
                   nops, shut, drops, hook, panic>>

(* --------------------------------- Hub --------------------------------- *)

\* The goroutines inside Hub.SendToUser between h.mu.RLock() and
\* h.mu.RUnlock().  The Hub's own critical sections are single steps, so these
\* are the only holders of h.mu a step can find: h.mu.Lock() waits for them.
RLockHolders == {task \in unread : task.stage = "rlocked"}

\* Displace with the close of the old Session's queue left out.
DisplaceNoClose(cz, old) == cz

\* close(old.send) of the register case, when the user already has a Session.
Displace(cz, old) == IF old = NoClient THEN cz ELSE [cz EXCEPT ![old] = TRUE]

\* Hub.broadcastPresence: a non-blocking enqueue on every Session of the map.
broadcastPresence(cl, q, u, status) ==
    [s \in Sessions |->
        IF s \in LiveSessions(cl)
        THEN TrySend(q, s, NewWSMessage("presence.update", "", u, status, 0))[s]
        ELSE q[s]]

\* Hub.Run, case client := <-h.register.  The channel is unbuffered: ServeWS
\* hands the Session over and goes on to start the two pumps.
HubRegister(s) ==
    /\ panic = ""
    /\ pc[s] = "register"
    /\ RLockHolders = {}
    /\ LET u == sessUser[s]
           old == clients[u]
           cl == [clients EXCEPT ![u] = s]
           cz == Displace(closed, old)
       IN  IF old # NoClient /\ closed[old]
           THEN Panic("close of closed channel")
           ELSE IF \E t \in LiveSessions(cl) : cz[t]
           THEN Panic("send on closed channel")
           ELSE /\ closed' = cz
                /\ clients' = cl
                /\ send' = broadcastPresence(cl, send, u, "online")
                /\ presence' = [presence EXCEPT ![u] = "online"]
                /\ pc' = [pc EXCEPT ![s] = "read"]
                /\ wp' = [wp EXCEPT ![s] = "run"]
                /\ UNCHANGED <<nconn, sessUser, rooms, pending, broadcast,
                               hubSeq, dbVars, unread, nops, shut, drops, hook, panic>>

\* Unregistered with the identity check left out: whatever Session the map
\* holds for the user is deleted and closed.
UnregisteredAny(s) == clients[sessUser[s]]

\* The Session the unregister case deletes and closes, NoClient if none:
\* existing, ok := h.clients[client.UserID]; ok && existing == client
Unregistered(s) == IF clients[sessUser[s]] = s THEN s ELSE NoClient

\* Hub.Run, case client := <-h.unregister, receiving from readPump's defer,
\* which then closes the transport.
HubUnregister(s) ==
    /\ panic = ""
    /\ pc[s] = "unregister"
    /\ RLockHolders = {}
    /\ LET u == sessUser[s]
           gone == Unregistered(s)
           cl == IF gone # NoClient THEN [clients EXCEPT ![u] = NoClient] ELSE clients
           cz == IF gone # NoClient THEN [closed EXCEPT ![gone] = TRUE] ELSE closed
       IN  IF gone # NoClient /\ closed[gone]
           THEN Panic("close of closed channel")
           ELSE IF \E t \in LiveSessions(cl) : cz[t]
           THEN Panic("send on closed channel")
           ELSE /\ closed' = cz
                /\ clients' = cl
                /\ send' = broadcastPresence(cl, send, u, "offline")
                /\ presence' = [presence EXCEPT ![u] = "offline"]
                /\ pc' = [pc EXCEPT ![s] = "closed"]
                /\ UNCHANGED <<nconn, sessUser, wp, rooms, pending, broadcast,
                               hubSeq, dbVars, unread, nops, shut, drops, hook, panic>>

\* Eligible with the ExcludeUserID test left out.
EligibleNoExclude(msg) == {s \in LiveSessions(clients) : msg.room \in rooms[s]}

\* Eligible with the client.rooms test left out.
EligibleNoRooms(msg) ==
    {s \in LiveSessions(clients) : sessUser[s] # msg.exclude}

\* The Sessions the broadcast loop tries to enqueue on: in the map, not the
\* excluded user's, and with the room in Client.rooms.
Eligible(msg) ==
    {s \in LiveSessions(clients) : /\ sessUser[s] # msg.exclude
                                   /\ msg.room \in rooms[s]}

\* The copy of the payload Hub.Run enqueues for its k-th broadcast.
Tag(data, k) == [data EXCEPT !.n = k]

\* The eligible Sessions whose select falls to default: closed and deleted.
Evicted(msg) == {s \in Eligible(msg) : ~HasRoom(send, s)}

\* Deliver putting the frame at the head of the queue.
DeliverAtHead(msg, k) ==
    [s \in Sessions |->
        IF s \in Eligible(msg) /\ HasRoom(send, s)
        THEN <<Tag(msg.data, k)>> \o send[s]
        ELSE send[s]]

\* case client.send <- msg.Data, for every eligible Session with buffer space.
Deliver(msg, k) ==
    [s \in Sessions |->
        IF s \in Eligible(msg) /\ HasRoom(send, s)
        THEN Append(send[s], Tag(msg.data, k))
        ELSE send[s]]

\* Hub.Run, case msg := <-h.broadcast.
HubBroadcast ==
    /\ panic = ""
    /\ broadcast # <<>>
    /\ LET msg == Head(broadcast) IN
        IF \E s \in Eligible(msg) : closed[s]
        THEN Panic("send on closed channel")
        ELSE /\ send' = Deliver(msg, hubSeq + 1)
             /\ closed' = [s \in Sessions |-> closed[s] \/ s \in Evicted(msg)]
             /\ clients' = [u \in Users |->
                              IF clients[u] \in Evicted(msg) THEN NoClient
                              ELSE clients[u]]
             /\ broadcast' = Tail(broadcast)
             /\ hubSeq' = hubSeq + 1
             /\ UNCHANGED <<nconn, sessUser, pc, wp, rooms, pending, presence,
                            dbVars, unread, nops, shut, drops, hook, panic>>

\* SendToUser enqueueing whether or not the queue has room.
SendToUserForce(q, u, f) ==
    IF clients[u] = NoClient THEN q ELSE [q EXCEPT ![clients[u]] = Append(@, f)]

\* Hub.SendToUser: lookup under the read lock, then a non-blocking enqueue.
SendToUser(q, u, f) ==
    IF clients[u] = NoClient THEN q ELSE TrySend(q, clients[u], f)

\* Hub.Shutdown, called once by main on SIGINT or SIGTERM: under the write
\* lock, close(client.send) for every Session of the map, which stays as it
\* is.  Hub.Run keeps running.
Shutdown ==
    /\ panic = ""
    /\ ~shut
    /\ RLockHolders = {}
    /\ IF \E s \in LiveSessions(clients) : closed[s]
       THEN Panic("close of closed channel")
       ELSE /\ shut' = TRUE
            /\ closed' = [s \in Sessions |->
                             closed[s] \/ s \in LiveSessions(clients)]
            /\ UNCHANGED <<nconn, sessUser, pc, wp, rooms, send, pending,
                           hubVars, dbVars, unread, nops, drops, hook, panic>>

(* ------------------------------ writePump ------------------------------ *)

\* The transport is open until either pump has closed it.
ConnOpen(s) == wp[s] # "exit" /\ pc[s] # "closed"

\* writePump, case message, ok := <-c.send.  The frame at the head of the
\* channel is the one the pump writes to the transport; a closed channel still
\* yields its buffered frames and, once empty, makes the pump write the close
\* frame and return.  A write on a transport readPump has closed fails.
WritePump(s) ==
    /\ panic = ""
    /\ wp[s] = "run"
    /\ IF send[s] # <<>>
       THEN /\ send' = [send EXCEPT ![s] = Tail(@)]
            /\ wp' = IF ConnOpen(s) THEN wp ELSE [wp EXCEPT ![s] = "exit"]
       ELSE /\ closed[s]
            /\ wp' = [wp EXCEPT ![s] = "exit"]
            /\ send' = send
    /\ UNCHANGED <<nconn, sessUser, pc, rooms, closed, pending, hubVars, dbVars,
                   unread, nops, shut, drops, hook, panic>>

\* writePump returning on a failed write: of the frame it has just taken from
\* the channel, or of the ticker's ping when the channel is empty.
WritePumpErr(s) ==
    /\ panic = ""
    /\ wp[s] = "run"
    /\ send' = IF send[s] # <<>> THEN [send EXCEPT ![s] = Tail(@)] ELSE send
    /\ wp' = [wp EXCEPT ![s] = "exit"]
    /\ UNCHANGED <<nconn, sessUser, pc, rooms, closed, pending, hubVars, dbVars,
                   unread, nops, shut, drops, hook, panic>>

(* ------------------------------ readPump ------------------------------- *)

\* CanRead with reads still succeeding after writePump closed the transport.
CanReadTransportClosed(s) ==
    /\ panic = ""
    /\ pc[s] = "read"
    /\ nops < MaxOps

\* readPump is at c.conn.ReadMessage() and the peer has a frame for it.
CanRead(s) ==
    /\ panic = ""
    /\ pc[s] = "read"
    /\ wp[s] # "exit"
    /\ nops < MaxOps

\* ReadMessage returns an error (peer gone, deadline, transport closed by
\* writePump): the loop breaks and the deferred function sends on
\* Hub.unregister.
ReadErr(s) ==
    /\ panic = ""
    /\ pc[s] = "read"
    /\ pc' = [pc EXCEPT ![s] = "unregister"]
    /\ UNCHANGED <<nconn, sessUser, wp, rooms, send, closed, pending,
                   hubVars, dbVars, unread, nops, shut, drops, hook, panic>>

\* sendError, and the pong reply of handleMessage: a non-blocking send on the
\* Session's own queue, which panics when the Hub has closed it.
ReplyToSelf(s, f) ==
    IF closed[s]
    THEN Panic("send on closed channel")
    ELSE /\ send' = TrySend(send, s, f)
         /\ nops' = nops + 1
         /\ shut' = shut
         /\ drops' = drops
         /\ hook' = hook
         /\ UNCHANGED <<nconn, sessUser, pc, wp, rooms, closed, pending,
                        hubVars, dbVars, unread, panic>>

sendError(s, code) == ReplyToSelf(s, NewWSMessage("error", "", "", code, 0))

\* The goroutine go sendUnreadUpdates(hub, roomID, senderID) of the message
\* with the given id, about to query the room's members.  stage is where the
\* goroutine stands, todo the members its loop has yet to visit, target and
\* count the member and the unread count of the iteration under way, asOf the
\* last_read_at that count was computed from.
UnreadTask(r, u, id) ==
    [room |-> r, sender |-> u, id |-> id, stage |-> "members", todo |-> {},
     target |-> "", count |-> 0, asOf |-> 0, client |-> NoClient]

\* Hub.BroadcastToRoom once its send on Hub.broadcast goes through, and what
\* the handler does after it: HandleSendMessage starts sendUnreadUpdates,
\* HandleMessageRead calls SendToUser with the count-0 unread.update.
Enqueue(s, msg) ==
    LET u == sessUser[s]
        isRead == msg.data.type = "read_receipt.update"
    IN  /\ broadcast' = Append(broadcast, msg)
        /\ unread' = IF msg.data.type = "message.new"
                     THEN unread \cup {UnreadTask(msg.room, u, msg.data.num)}
                     ELSE unread
        /\ IF isRead /\ clients[u] # NoClient /\ closed[clients[u]]
           THEN /\ panic' = "send on closed channel"
                /\ send' = send
           ELSE /\ panic' = panic
                /\ send' = IF isRead
                           THEN SendToUser(send, u,
                                    NewWSMessage("unread.update", msg.room, "", "", 0))
                           ELSE send

\* A handler has built its frame and calls Hub.BroadcastToRoom: the send on
\* the buffered channel goes through at once when there is space, and blocks
\* the read loop otherwise.
Submit(s, msg) ==
    LET m == [msg EXCEPT !.byMember = <<msg.room, sessUser[s]>> \in members] IN
    /\ nops' = nops + 1
    /\ shut' = shut
    /\ drops' = drops
    /\ hook' = hook
    /\ IF Len(broadcast) < BroadcastCap
       THEN /\ Enqueue(s, m)
            /\ UNCHANGED <<pending, pc>>
       ELSE /\ pending' = [pending EXCEPT ![s] = m]
            /\ pc' = [pc EXCEPT ![s] = "bcast"]
            /\ UNCHANGED <<broadcast, unread, send, panic>>

\* SendMessageExclude excluding the sender, as HandleTyping does.
SendMessageExcludeSender(u) == u

\* The excludeUserID HandleSendMessage passes to BroadcastToRoom.
SendMessageExclude(u) == ""

\* InvalidPayload with the room_id test left out.
InvalidPayloadContentOnly(r, content) == content = ""

\* if payload.Content == "" || payload.RoomID == ""
InvalidPayload(r, content) == content = "" \/ r = ""

HandleSendMessage(s, r, content) ==
    /\ CanRead(s)
    /\ LET u == sessUser[s] IN
        IF InvalidPayload(r, content)
        THEN sendError(s, "INVALID_PAYLOAD")
        ELSE IF ~IsRoomMember(r, u)
        THEN sendError(s, "NOT_MEMBER")
        ELSE /\ messages' = CreateMessage(r, u)
             /\ atAppend' = Append(atAppend, GetRoomMembers(r))
             /\ Submit(s, BroadcastMessage(r,
                    NewWSMessage("message.new", r, u, content, Now + 1),
                    SendMessageExclude(u)))
             /\ UNCHANGED <<nconn, sessUser, wp, rooms, closed, clients,
                            hubSeq, presence, members, lastRead, readAt>>

HandleRoomJoin(s, r) ==
    /\ CanRead(s)
    /\ LET u == sessUser[s] IN
        /\ members' = AddRoomMemberRows(r, u)
        /\ lastRead' = AddRoomMemberLastRead(r, u)
        /\ readAt' = readAt
        /\ rooms' = [rooms EXCEPT ![s] = @ \cup {r}]
        /\ Submit(s, BroadcastMessage(r,
               NewWSMessage("room.member_joined", r, u, "", 0), ""))
    /\ UNCHANGED <<nconn, sessUser, wp, closed, clients, hubSeq, presence, messages,
                   atAppend>>

HandleRoomLeave(s, r) ==
    /\ CanRead(s)
    /\ LET u == sessUser[s] IN
        /\ members' = RemoveRoomMemberRows(r, u)
        /\ lastRead' = RemoveRoomMemberLastRead(r, u)
        /\ readAt' = [readAt EXCEPT ![<<r, u>>] = 0]
        /\ rooms' = [rooms EXCEPT ![s] = @ \ {r}]
        /\ Submit(s, BroadcastMessage(r,
               NewWSMessage("room.member_left", r, u, "", 0), ""))
    /\ UNCHANGED <<nconn, sessUser, wp, closed, clients, hubSeq, presence, messages,
                   atAppend>>

\* TypingExclude excluding nobody, as HandleSendMessage does.
TypingExcludeNobody(u) == ""

\* The excludeUserID HandleTyping passes to BroadcastToRoom.
TypingExclude(u) == u

\* The typing.update frame for typing.start (isTyping) or typing.stop.
TypingUpdate(r, u, isTyping) ==
    NewWSMessage("typing.update", r, u, IF isTyping THEN "true" ELSE "false", 0)

HandleTyping(s, r, isTyping) ==
    /\ CanRead(s)
    /\ LET u == sessUser[s] IN
        Submit(s, BroadcastMessage(r, TypingUpdate(r, u, isTyping),
                                   TypingExclude(u)))
    /\ UNCHANGED <<nconn, sessUser, wp, rooms, closed, clients, hubSeq, presence,
                   dbVars>>

\* ReadReceiptExclude excluding nobody, as HandleSendMessage does.
ReadReceiptExcludeNobody(u) == ""

\* The excludeUserID HandleMessageRead passes to BroadcastToRoom.
ReadReceiptExclude(u) == u

HandleMessageRead(s, r, t) ==
    /\ CanRead(s)
    /\ LET u == sessUser[s] IN
        /\ lastRead' = UpdateLastRead(r, u, t)
        /\ readAt' = IF <<r, u>> \in members /\ t > readAt[<<r, u>>]
                     THEN [readAt EXCEPT ![<<r, u>>] = t] ELSE readAt
        /\ Submit(s, BroadcastMessage(r,
               NewWSMessage("read_receipt.update", r, u, "", t),
               ReadReceiptExclude(u)))
    /\ UNCHANGED <<nconn, sessUser, wp, rooms, closed, clients, hubSeq, presence,
                   members, messages, atAppend>>

\* handleMessage, case TypePing.
HandlePing(s) ==
    /\ CanRead(s)
    /\ ReplyToSelf(s, NewWSMessage("pong", "", "", "", 0))

\* A read loop blocked in Hub.BroadcastToRoom gets its message into the
\* channel and the handler runs to its end.
BroadcastToRoom(s) ==
    /\ panic = ""
    /\ pc[s] = "bcast"
    /\ Len(broadcast) < BroadcastCap
    /\ Enqueue(s, pending[s])
    /\ pending' = [pending EXCEPT ![s] = NoBroadcast]
    /\ pc' = [pc EXCEPT ![s] = "read"]
    /\ UNCHANGED <<nconn, sessUser, wp, rooms, closed, clients, hubSeq, presence,
                   dbVars, nops, shut, drops, hook>>

\* UnreadTargets with the sender not skipped.
UnreadTargetsAll(task) == GetRoomMembers(task.room)

\* The members sendUnreadUpdates sends to: every room member but the sender.
UnreadTargets(task) == GetRoomMembers(task.room) \ {task.sender}

\* The running sendUnreadUpdates goroutine of message k.
TaskOf(k) == CHOOSE task \in unread : task.id = k

\* The goroutine of message k is at the given stage.
TaskAt(k, stage) == \E task \in unread : task.id = k /\ task.stage = stage

\* sendUnreadUpdates, members, err := database.GetRoomMembers(...): the loop
\* will visit the members other than the sender; with none, it returns.
sendUnreadUpdates(k) ==
    /\ panic = ""
    /\ TaskAt(k, "members")
    /\ LET task == TaskOf(k)
           todo == UnreadTargets(task)
       IN  unread' = IF todo = {} THEN unread \ {task}
                     ELSE (unread \ {task}) \cup
                          {[task EXCEPT !.stage = "count", !.todo = todo]}
    /\ UNCHANGED <<sessVars, hubVars, dbVars, nops, shut, drops, hook, panic>>

\* sendUnreadUpdates, count, err := database.GetUnreadCount(...) for the next
\* member of the loop.
sendUnreadUpdatesCount(k) ==
    /\ panic = ""
    /\ TaskAt(k, "count")
    /\ LET task == TaskOf(k) IN
        \E u \in task.todo :
            unread' = (unread \ {task}) \cup
                      {[task EXCEPT !.stage = "send",
                                    !.todo = @ \ {u},
                                    !.target = u,
                                    !.count = GetUnreadCount(task.room, u),
                                    !.asOf = lastRead[<<task.room, u>>]]}
    /\ UNCHANGED <<sessVars, hubVars, dbVars, nops, shut, drops, hook, panic>>

\* The unread.update frame of an iteration of the loop.
UnreadUpdate(task) == NewWSMessage("unread.update", task.room, "", "", task.count)

\* sendUnreadUpdates, hub.SendToUser(member.ID, data), and on to the next
\* member or the return.
sendUnreadUpdatesSend(k) ==
    /\ panic = ""
    /\ TaskAt(k, "send")
    /\ LET task == TaskOf(k)
           u == task.target
       IN  IF clients[u] # NoClient /\ closed[clients[u]]
           THEN Panic("send on closed channel")
           ELSE /\ send' = SendToUser(send, u, UnreadUpdate(task))
                /\ unread' = IF task.todo = {} THEN unread \ {task}
                             ELSE (unread \ {task}) \cup
                                  {[task EXCEPT !.stage = "count", !.target = "",
                                                !.count = 0, !.asOf = 0]}
                /\ UNCHANGED <<nconn, sessUser, pc, wp, rooms, closed, pending,
                               hubVars, dbVars, nops, shut, drops, hook, panic>>

(* ------------------------------ REST ----------------------------------- *)

\* handlers.JoinRoom: POST /api/rooms/{id}/join for an existing room.
JoinRoom(u, r) ==
    /\ panic = ""
    /\ nops < MaxOps
    /\ nops' = nops + 1
    /\ shut' = shut
    /\ drops' = drops
    /\ hook' = hook
    /\ members' = AddRoomMemberRows(r, u)
    /\ lastRead' = AddRoomMemberLastRead(r, u)
    /\ readAt' = readAt
    /\ UNCHANGED <<sessVars, hubVars, messages, atAppend, unread, panic>>

\* handlers.LeaveRoom: DELETE /api/rooms/{id}/leave.
LeaveRoom(u, r) ==
    /\ panic = ""
    /\ nops < MaxOps
    /\ nops' = nops + 1
    /\ shut' = shut
    /\ drops' = drops
    /\ hook' = hook
    /\ members' = RemoveRoomMemberRows(r, u)
    /\ lastRead' = RemoveRoomMemberLastRead(r, u)
    /\ readAt' = [readAt EXCEPT ![<<r, u>>] = 0]
    /\ UNCHANGED <<sessVars, hubVars, messages, atAppend, unread, panic>>

\* The sendUnreadUpdates goroutines a run can start: one per inserted message,
\* named by the message's id.
UnreadTasks == 1 .. MaxOps

(* ------------------------------- ingress ------------------------------- *)

\* The token query parameter of an upgrade request: the user it names and the
\* key it was signed with; NoToken when the parameter is absent.
NoToken == [user |-> "", key |-> ""]

Tokens == [user : Users, key : {"secret", "forged"}] \cup {NoToken}

\* auth.ValidateToken(token, jwtSecret): the token verifies against the
\* configured secret.
ValidateToken(tok) == tok.key = "secret"

\* Unauthorized without the return: ServeWS goes on to upgrade.
UnauthorizedNoReturn(tok) ==
    /\ nops < MaxOps
    /\ ServeWS(tok.user)

\* http.Error(w, ..., http.StatusUnauthorized); return
Unauthorized(tok) ==
    /\ panic = ""
    /\ nops < MaxOps
    /\ nops' = nops + 1
    /\ UNCHANGED <<sessVars, hubVars, dbVars, unread, shut, drops, hook, panic>>

\* ServeWS on an upgrade request, whatever its token.
ServeWSRequest(tok) ==
    IF tok = NoToken THEN Unauthorized(tok)
    ELSE IF ~ValidateToken(tok) THEN Unauthorized(tok)
    ELSE ServeWS(tok.user)

\* The timestamp string of a message.read payload: whether it is RFC 3339 and
\* the time it then denotes.
Stamp(t) == [rfc3339 |-> TRUE, t |-> t]

BadStamp == [rfc3339 |-> FALSE, t |-> 1]

\* TimeParse accepting any string.
TimeParseLenient(st) == TRUE

\* time.Parse(time.RFC3339, payload.Timestamp) returns no error.
TimeParse(st) == st.rfc3339

\* A text frame a client sends: whether it is JSON of the WSMessage shape, its
\* type tag, whether its payload decodes into the type's payload struct, and
\* the decoded fields.
Inbound(type, r, content, st) ==
    [wellformed |-> TRUE, type |-> type, decodes |-> TRUE,
     room |-> r, content |-> content, stamp |-> st]

Malformed == [Inbound("", "", "", BadStamp) EXCEPT !.wellformed = FALSE]

Undecodable(type) == [Inbound(type, "", "", BadStamp) EXCEPT !.decodes = FALSE]

PayloadTypes == {"message.send", "room.join", "room.leave", "typing.start",
                 "typing.stop", "message.read"}

InboundFrames ==
    {Malformed, Inbound("bogus", "r1", "hi", Stamp(1))}
        \cup {Undecodable(ty) : ty \in PayloadTypes}
        \cup {Inbound("message.send", r, c, BadStamp) :
                 r \in Rooms \cup {""}, c \in Contents \cup {""}}
        \cup {Inbound(ty, r, "", BadStamp) :
                 ty \in {"room.join", "room.leave", "typing.start"}, r \in Rooms}
        \cup {Inbound("message.read", r, "", st) :
                 r \in Rooms, st \in {BadStamp} \cup {Stamp(t) : t \in Timestamps}}
        \cup {Inbound("ping", "", "", BadStamp)}

\* The storage calls the handler of a frame type makes.
StorageCalls(type) ==
    CASE type = "message.send" -> {"IsRoomMember", "CreateMessage"}
      [] type = "room.join" -> {"AddRoomMember"}
      [] type = "room.leave" -> {"RemoveRoomMember"}
      [] type = "message.read" -> {"UpdateLastRead"}
      [] OTHER -> {}

\* The storage call that returns an error while a frame is handled, "" if
\* none does.
DBFailures == {""} \cup UNION {StorageCalls(type) : type \in PayloadTypes}

\* readPump's continue and handleMessage's bare return: the frame has been
\* read and nothing else has happened.
Dropped(s) ==
    /\ CanRead(s)
    /\ nops' = nops + 1
    /\ drops' = drops + 1
    /\ hook' = hook
    /\ UNCHANGED <<sessVars, hubVars, dbVars, unread, shut, panic>>

\* HandleSendMessage when IsRoomMember or CreateMessage returns an error.
HandleSendMessageDBErr(s, r, content, op) ==
    /\ CanRead(s)
    /\ IF InvalidPayload(r, content)
       THEN sendError(s, "INVALID_PAYLOAD")
       ELSE IF op = "IsRoomMember" \/ ~IsRoomMember(r, sessUser[s])
       THEN sendError(s, "NOT_MEMBER")
       ELSE sendError(s, "INTERNAL_ERROR")

\* HandleRoomJoin when AddRoomMember returns an error: slog.Error and return.
HandleRoomJoinDBErr(s, r) == Dropped(s)

\* HandleRoomLeave when RemoveRoomMember returns an error: return.
HandleRoomLeaveDBErr(s, r) == Dropped(s)

\* HandleMessageRead when UpdateLastRead returns an error: return.
HandleMessageReadDBErr(s, r, t) == Dropped(s)

\* Client.handleMessage: the switch on msg.Type, with the storage call named
\* by db failing.
handleMessage(s, msg, db) ==
    CASE msg.type = "message.send" ->
            IF ~msg.decodes THEN Dropped(s)
            ELSE IF db \in {"IsRoomMember", "CreateMessage"}
            THEN HandleSendMessageDBErr(s, msg.room, msg.content, db)
            ELSE HandleSendMessage(s, msg.room, msg.content)
      [] msg.type = "room.join" ->
            IF ~msg.decodes THEN Dropped(s)
            ELSE IF db = "AddRoomMember" THEN HandleRoomJoinDBErr(s, msg.room)
            ELSE HandleRoomJoin(s, msg.room)
      [] msg.type = "room.leave" ->
            IF ~msg.decodes THEN Dropped(s)
            ELSE IF db = "RemoveRoomMember" THEN HandleRoomLeaveDBErr(s, msg.room)
            ELSE HandleRoomLeave(s, msg.room)
      [] msg.type \in {"typing.start", "typing.stop"} ->
            IF ~msg.decodes THEN Dropped(s)
            ELSE HandleTyping(s, msg.room, msg.type = "typing.start")
      [] msg.type = "message.read" ->
            IF ~msg.decodes THEN Dropped(s)
            ELSE IF ~TimeParse(msg.stamp) THEN Dropped(s)
            ELSE IF db = "UpdateLastRead"
            THEN HandleMessageReadDBErr(s, msg.room, msg.stamp.t)
            ELSE HandleMessageRead(s, msg.room, msg.stamp.t)
      [] msg.type = "ping" -> HandlePing(s)
      [] OTHER -> Dropped(s)

\* One turn of readPump's loop on a frame that was read without error.
readPump(s, msg, db) ==
    IF ~msg.wellformed THEN Dropped(s) ELSE handleMessage(s, msg, db)

(* ------------------------------ the system ----------------------------- *)

Next ==
    \/ \E u \in Users : ServeWS(u)
    \/ \E s \in Sessions : HubRegister(s)
    \/ \E s \in Sessions : HubUnregister(s)
    \/ HubBroadcast
    \/ \E s \in Sessions : WritePump(s)
    \/ \E s \in Sessions : WritePumpErr(s)
    \/ \E s \in Sessions : ReadErr(s)
    \/ \E s \in Sessions, r \in Rooms, c \in Contents : HandleSendMessage(s, r, c)
    \/ \E s \in Sessions, r \in Rooms : HandleRoomJoin(s, r)
    \/ \E s \in Sessions, r \in Rooms : HandleRoomLeave(s, r)
    \/ \E s \in Sessions, r \in Rooms, b \in {TRUE} : HandleTyping(s, r, b)
    \/ \E s \in Sessions, r \in Rooms, t \in Timestamps : HandleMessageRead(s, r, t)
    \/ \E s \in Sessions : HandlePing(s)
    \/ \E s \in Sessions : BroadcastToRoom(s)
    \/ \E k \in UnreadTasks : sendUnreadUpdates(k)
    \/ \E k \in UnreadTasks : sendUnreadUpdatesCount(k)
    \/ \E k \in UnreadTasks : sendUnreadUpdatesSend(k)
    \/ \E u \in Users, r \in Rooms : JoinRoom(u, r)
    \/ \E u \in Users, r \in Rooms : LeaveRoom(u, r)

Spec == Init /\ [][Next]_vars

\* Sending and marking read among the members of a room: no join, leave or
\* disconnect, and message.read with any of several timestamps.
ReadNext ==
    \/ \E u \in Users : ServeWS(u)
    \/ \E s \in Sessions : HubRegister(s)
    \/ HubBroadcast
    \/ \E s \in Sessions : WritePump(s)
    \/ \E s \in Sessions, r \in Rooms, c \in Contents : HandleSendMessage(s, r, c)
    \/ \E s \in Sessions, r \in Rooms, t \in ReadTimestamps : HandleMessageRead(s, r, t)
    \/ \E s \in Sessions : BroadcastToRoom(s)
    \/ \E k \in UnreadTasks : sendUnreadUpdates(k)
    \/ \E k \in UnreadTasks : sendUnreadUpdatesCount(k)
    \/ \E k \in UnreadTasks : sendUnreadUpdatesSend(k)

ReadSpec == InitJoined /\ [][ReadNext]_vars

\* The room of kind dm, and the user u1 has it with: one who never connects.
DMRoom == "r2"
DMPeer == "u0"

\* database.GetOrCreateDMRoom when the two users have no dm room yet: the
\* rows it inserts in room_members for the room it creates with type 'dm'.
GetOrCreateDMRoom(userID1, userID2) == {DMRoom} \X {userID1, userID2}

\* The server starts with u1 the only member of r1 and with the dm room of
\* u1 and the peer.
InitDM == Start({<<"r1", "u1">>} \cup GetOrCreateDMRoom("u1", DMPeer))

\* Users who connect, join rooms by id over the socket and over REST, and
\* send messages.
DMNext ==
    \/ \E u \in Users : ServeWS(u)
    \/ \E s \in Sessions : HubRegister(s)
    \/ HubBroadcast
    \/ \E s \in Sessions : WritePump(s)
    \/ \E s \in Sessions, r \in AllRooms : HandleRoomJoin(s, r)
    \/ \E u \in Users, r \in AllRooms : JoinRoom(u, r)
    \/ \E s \in Sessions, r \in AllRooms, c \in Contents : HandleSendMessage(s, r, c)
    \/ \E s \in Sessions : BroadcastToRoom(s)
    \/ \E k \in UnreadTasks : sendUnreadUpdates(k)
    \/ \E k \in UnreadTasks : sendUnreadUpdatesCount(k)
    \/ \E k \in UnreadTasks : sendUnreadUpdatesSend(k)

DMSpec == InitDM /\ [][DMNext]_vars

(* ---------------- Client.mu and the Hub's read of Client.rooms ---------- *)

\* HandleRoomJoin up to c.mu.Lock(): the row is inserted and the read loop
\* holds the Session's mutex, about to write c.rooms.  pending keeps the
\* frame the handler will broadcast once it has unlocked.
HandleRoomJoinLock(s, r) ==
    /\ CanRead(s)
    /\ LET u == sessUser[s] IN
        /\ members' = AddRoomMemberRows(r, u)
        /\ lastRead' = AddRoomMemberLastRead(r, u)
        /\ readAt' = readAt
        /\ pending' = [pending EXCEPT ![s] =
               [BroadcastMessage(r, NewWSMessage("room.member_joined", r, u, "", 0), "")
                   EXCEPT !.byMember = TRUE]]
    /\ pc' = [pc EXCEPT ![s] = "write"]
    /\ nops' = nops + 1
    /\ UNCHANGED <<nconn, sessUser, wp, rooms, send, closed, hubVars, messages,
                   atAppend, unread, shut, drops, hook, panic>>

\* HandleRoomLeave up to c.mu.Lock().
HandleRoomLeaveLock(s, r) ==
    /\ CanRead(s)
    /\ LET u == sessUser[s] IN
        /\ members' = RemoveRoomMemberRows(r, u)
        /\ lastRead' = RemoveRoomMemberLastRead(r, u)
        /\ readAt' = [readAt EXCEPT ![<<r, u>>] = 0]
        /\ pending' = [pending EXCEPT ![s] =
               [BroadcastMessage(r, NewWSMessage("room.member_left", r, u, "", 0), "")
                   EXCEPT !.byMember = FALSE]]
    /\ pc' = [pc EXCEPT ![s] = "write"]
    /\ nops' = nops + 1
    /\ UNCHANGED <<nconn, sessUser, wp, rooms, send, closed, hubVars, messages,
                   atAppend, unread, shut, drops, hook, panic>>

\* c.rooms[payload.RoomID] = true, or delete(c.rooms, payload.RoomID), and
\* c.mu.Unlock(): the handler goes on to Hub.BroadcastToRoom.
RoomsWrite(s) ==
    /\ panic = ""
    /\ pc[s] = "write"
    /\ rooms' = [rooms EXCEPT ![s] =
                    IF pending[s].data.type = "room.member_joined"
                    THEN @ \cup {pending[s].room} ELSE @ \ {pending[s].room}]
    /\ pc' = [pc EXCEPT ![s] = "bcast"]
    /\ UNCHANGED <<nconn, sessUser, wp, send, closed, pending, hubVars, dbVars,
                   unread, nops, shut, drops, hook, panic>>

\* The Sessions whose rooms map the broadcast loop reads for a message: every
\* Session of Hub.clients but the excluded user's.  The loop holds h.mu for
\* reading and never takes client.mu.
HubReadsRooms(msg) == {s \in LiveSessions(clients) : sessUser[s] # msg.exclude}

\* The broadcast loop reads client.rooms while that Session's handler is
\* writing the map: a data race.  The read may see the map before or after
\* the write (HubBroadcast taken before or after RoomsWrite), or the Go
\* runtime detects the concurrent access and ends the process.
RoomsRace ==
    /\ panic = ""
    /\ broadcast # <<>>
    /\ \E s \in HubReadsRooms(Head(broadcast)) : pc[s] = "write"
    /\ Panic("concurrent map read and map write")

\* Users joining and leaving a room while the Hub delivers the broadcasts of
\* earlier joins.
MutexNext ==
    \/ \E u \in Users : ServeWS(u)
    \/ \E s \in Sessions : HubRegister(s)
    \/ HubBroadcast
    \/ RoomsRace
    \/ \E s \in Sessions : WritePump(s)
    \/ \E s \in Sessions, r \in Rooms : HandleRoomJoinLock(s, r)
    \/ \E s \in Sessions, r \in Rooms : HandleRoomLeaveLock(s, r)
    \/ \E s \in Sessions : RoomsWrite(s)
    \/ \E s \in Sessions : BroadcastToRoom(s)

MutexSpec == Init /\ [][MutexNext]_vars

(* ----------------------- Hub.mu and Hub.clients ------------------------ *)

\* Hub.SendToUser called by sendUnreadUpdates: h.mu.RLock().
SendToUserRLock(k) ==
    /\ panic = ""
    /\ TaskAt(k, "send")
    /\ unread' = (unread \ {TaskOf(k)}) \cup {[TaskOf(k) EXCEPT !.stage = "rlocked"]}
    /\ UNCHANGED <<sessVars, hubVars, dbVars, nops, shut, drops, hook, panic>>

\* client, ok := h.clients[userID]; h.mu.RUnlock()
SendToUserLookup(k) ==
    /\ panic = ""
    /\ TaskAt(k, "rlocked")
    /\ unread' = (unread \ {TaskOf(k)}) \cup
                 {[TaskOf(k) EXCEPT !.stage = "found",
                                    !.client = clients[TaskOf(k).target]]}
    /\ UNCHANGED <<sessVars, hubVars, dbVars, nops, shut, drops, hook, panic>>

\* if ok { select { case client.send <- data: default: } }, with the lock
\* released, and sendUnreadUpdates on to the next member or the return.
SendToUserSend(k) ==
    /\ panic = ""
    /\ TaskAt(k, "found")
    /\ LET task == TaskOf(k)
           c == task.client
       IN  IF c # NoClient /\ closed[c]
           THEN Panic("send on closed channel")
           ELSE /\ send' = IF c = NoClient THEN send
                           ELSE TrySend(send, c, UnreadUpdate(task))
                /\ unread' = IF task.todo = {} THEN unread \ {task}
                             ELSE (unread \ {task}) \cup
                                  {[task EXCEPT !.stage = "count", !.target = "",
                                                !.count = 0, !.asOf = 0,
                                                !.client = NoClient]}
                /\ UNCHANGED <<nconn, sessUser, pc, wp, rooms, closed, pending,
                               hubVars, dbVars, nops, shut, drops, hook, panic>>

\* The broadcast case deletes from h.clients, holding h.mu for reading, while
\* SendToUser reads the map under the same read lock: a data race on the map.
\* The lookup may see the entry or not (HubBroadcast taken before or after
\* SendToUserLookup), or the Go runtime detects the concurrent access and
\* ends the process.
ClientsRace ==
    /\ panic = ""
    /\ broadcast # <<>>
    /\ Evicted(Head(broadcast)) # {}
    /\ RLockHolders # {}
    /\ Panic("concurrent map read and map write")

\* Members sending messages whose recount goes through SendToUser step by
\* step, while Sessions register and are evicted.
LockNext ==
    \/ \E u \in Users : ServeWS(u)
    \/ \E s \in Sessions : HubRegister(s)
    \/ HubBroadcast
    \/ ClientsRace
    \/ \E s \in Sessions : WritePump(s)
    \/ \E s \in Sessions, r \in Rooms, c \in Contents : HandleSendMessage(s, r, c)
    \/ \E s \in Sessions : BroadcastToRoom(s)
    \/ \E k \in UnreadTasks : sendUnreadUpdates(k)
    \/ \E k \in UnreadTasks : sendUnreadUpdatesCount(k)
    \/ \E k \in UnreadTasks : SendToUserRLock(k)
    \/ \E k \in UnreadTasks : SendToUserLookup(k)
    \/ \E k \in UnreadTasks : SendToUserSend(k)

LockSpec == InitJoined /\ [][LockNext]_vars

\* The server's variables, which the client's hook does not touch.
serverVars == <<sessVars, hubVars, dbVars, unread, nops, shut, drops, panic>>

\* The component calls connect(token).
Connect ==
    /\ hook.mounted
    /\ Len(hook.socks) < MaxSockets
    /\ hook' = connectWs(hook)
    /\ UNCHANGED serverVars

\* The component calls disconnect().
Disconnect ==
    /\ hook.mounted
    /\ hook' = [hook EXCEPT !.intentional = TRUE,
                            !.token = FALSE,
                            !.timer = FALSE,
                            !.timerStale = FALSE,
                            !.ping = 0,
                            !.socks = close(hook.socks, hook.ws),
                            !.ws = 0,
                            !.isConnected = FALSE]
    /\ UNCHANGED serverVars

\* The cleanup of the hook's effect, when the component unmounts.
Unmount ==
    /\ hook.mounted
    /\ hook' = [hook EXCEPT !.mounted = FALSE,
                            !.intentional = TRUE,
                            !.timer = FALSE,
                            !.timerStale = FALSE,
                            !.ping = 0,
                            !.socks = close(hook.socks, hook.ws)]
    /\ UNCHANGED serverVars

\* The open event of socket k: ws.onopen.
OnOpen(k) ==
    /\ k \in DOMAIN hook.socks
    /\ hook.socks[k] = "connecting"
    /\ hook' = [hook EXCEPT !.socks[k] = "open",
                            !.isConnected = TRUE,
                            !.attempts = 0,
                            !.ping = k]
    /\ UNCHANGED serverVars

\* The close event of socket k: after close(), after a failed connection
\* attempt, or when the server or the network drops an open socket.
OnClose(k) ==
    /\ k \in DOMAIN hook.socks
    /\ hook.socks[k] # "closed"
    /\ hook' = onclose([hook EXCEPT !.socks[k] = "closed"], k)
    /\ UNCHANGED serverVars

\* The reconnect timeout fires: if (tokenRef.current) connectWs(...).
ReconnectTimer ==
    /\ hook.timer
    /\ Len(hook.socks) < MaxSockets
    /\ LET h == [hook EXCEPT !.timer = FALSE, !.timerStale = FALSE] IN
        hook' = IF h.token THEN connectWs(h) ELSE h
    /\ UNCHANGED serverVars

HookNext ==
    \/ Connect
    \/ Disconnect
    \/ Unmount
    \/ \E k \in 1 .. MaxSockets : OnOpen(k)
    \/ \E k \in 1 .. MaxSockets : OnClose(k)
    \/ ReconnectTimer

HookSpec == Init /\ [][HookNext]_vars

\* The timestamps of message.read frames that may name a time before the
\* newest message of the room: the client chooses payload.Timestamp.
StaleTimestamps == 0 .. MaxStamp

\* ReadNext with clients that mark a room read as of any time.
CountNext ==
    \/ \E u \in Users : ServeWS(u)
    \/ \E s \in Sessions : HubRegister(s)
    \/ HubBroadcast
    \/ \E s \in Sessions : WritePump(s)
    \/ \E s \in Sessions, r \in Rooms, c \in Contents : HandleSendMessage(s, r, c)
    \/ \E s \in Sessions, r \in Rooms, t \in StaleTimestamps : HandleMessageRead(s, r, t)
    \/ \E s \in Sessions : BroadcastToRoom(s)
    \/ \E k \in UnreadTasks : sendUnreadUpdates(k)
    \/ \E k \in UnreadTasks : sendUnreadUpdatesCount(k)
    \/ \E k \in UnreadTasks : sendUnreadUpdatesSend(k)

CountSpec == InitJoined /\ [][CountNext]_vars

\* Members sending messages and pinging while Sessions come, are displaced
\* and go: the Hub's three channels under load.
HubNext ==
    \/ \E u \in Users : ServeWS(u)
    \/ \E s \in Sessions : HubRegister(s)
    \/ \E s \in Sessions : HubUnregister(s)
    \/ HubBroadcast
    \/ \E s \in Sessions : WritePump(s)
    \/ \E s \in Sessions : ReadErr(s)
    \/ \E s \in Sessions, r \in Rooms, c \in Contents : HandleSendMessage(s, r, c)
    \/ \E s \in Sessions : HandlePing(s)
    \/ \E s \in Sessions : BroadcastToRoom(s)
    \/ \E k \in UnreadTasks : sendUnreadUpdates(k)
    \/ \E k \in UnreadTasks : sendUnreadUpdatesCount(k)
    \/ \E k \in UnreadTasks : sendUnreadUpdatesSend(k)

\* The Go scheduler runs every runnable goroutine: Hub.Run takes the next
\* event of a channel that has one, and a handler blocked on the Hub's
\* channel goes on once there is space.  No write loop is assumed to drain.
HubFairness ==
    /\ WF_vars(HubBroadcast)
    /\ WF_vars(\E s \in Sessions : HubRegister(s))
    /\ WF_vars(\E s \in Sessions : HubUnregister(s))
    /\ WF_vars(\E s \in Sessions : BroadcastToRoom(s))

FairSpec == InitJoined /\ [][HubNext]_vars /\ HubFairness

\* Clients that connect, drain their queues and send typing.start and
\* typing.stop.
TypingNext ==
    \/ \E u \in Users : ServeWS(u)
    \/ \E s \in Sessions : HubRegister(s)
    \/ HubBroadcast
    \/ \E s \in Sessions : WritePump(s)
    \/ \E s \in Sessions, r \in Rooms, b \in BOOLEAN : HandleTyping(s, r, b)
    \/ \E s \in Sessions : BroadcastToRoom(s)

TypingSpec == InitJoined /\ [][TypingNext]_vars

\* Clients that connect, drain their queues, join and leave the room over the
\* socket, send messages and type.
JoinNext ==
    \/ \E u \in Users : ServeWS(u)
    \/ \E s \in Sessions : HubRegister(s)
    \/ HubBroadcast
    \/ \E s \in Sessions : WritePump(s)
    \/ \E s \in Sessions, r \in Rooms : HandleRoomJoin(s, r)
    \/ \E s \in Sessions, r \in Rooms : HandleRoomLeave(s, r)
    \/ \E s \in Sessions, r \in Rooms, c \in Contents : HandleSendMessage(s, r, c)
    \/ \E s \in Sessions, r \in Rooms : HandleTyping(s, r, TRUE)
    \/ \E s \in Sessions : BroadcastToRoom(s)
    \/ \E k \in UnreadTasks : sendUnreadUpdates(k)
    \/ \E k \in UnreadTasks : sendUnreadUpdatesCount(k)
    \/ \E k \in UnreadTasks : sendUnreadUpdatesSend(k)

JoinSpec == Init /\ [][JoinNext]_vars

\* Upgrade requests with any token and inbound frames of any shape, handled
\* while any one storage call may fail.
IngressNext ==
    \/ \E s \in Sessions, msg \in InboundFrames :
          \E db \in {""} \cup StorageCalls(msg.type) : readPump(s, msg, db)
    \/ \E tok \in Tokens : ServeWSRequest(tok)
    \/ \E s \in Sessions : HubRegister(s)
    \/ HubBroadcast
    \/ \E s \in Sessions : WritePump(s)
    \/ \E s \in Sessions : BroadcastToRoom(s)
    \/ \E k \in UnreadTasks : sendUnreadUpdates(k)
    \/ \E k \in UnreadTasks : sendUnreadUpdatesCount(k)
    \/ \E k \in UnreadTasks : sendUnreadUpdatesSend(k)

IngressSpec == Init /\ [][IngressNext]_vars

\* The server starts with u1 a member of both rooms.
InitTwoRooms == Start(AllRooms \X {"u1"})

\* Clients that connect while the membership lookup may fail, drain their
\* queues, join rooms over the socket and type in them.
LookupNext ==
    \/ \E u \in Users : ServeWS(u)
    \/ \E u \in Users : ServeWSLookupErr(u)
    \/ \E s \in Sessions : HubRegister(s)
    \/ HubBroadcast
    \/ \E s \in Sessions : WritePump(s)
    \/ \E s \in Sessions, r \in AllRooms : HandleRoomJoin(s, r)
    \/ \E s \in Sessions, r \in AllRooms : HandleTyping(s, r, TRUE)
    \/ \E s \in Sessions : BroadcastToRoom(s)

LookupSpec == InitTwoRooms /\ [][LookupNext]_vars

\* HubNext with the write loop's failed write.
CloseNext ==
    \/ HubNext
    \/ \E s \in Sessions : WritePumpErr(s)

\* Both pumps are goroutines of their own.  writePump's write either succeeds
\* or fails within writeWait, and it returns once its channel is closed and
\* empty; ReadMessage on a transport that writePump has closed returns an
\* error.  No peer is assumed to disconnect by itself.
PumpFairness ==
    \A s \in Sessions :
        /\ WF_vars(WritePump(s) \/ WritePumpErr(s))
        /\ WF_vars(ReadErr(s) /\ wp[s] = "exit")

CloseSpec == InitJoined /\ [][CloseNext]_vars /\ HubFairness /\ PumpFairness

\* The server up to and after main's call of Hub.Shutdown, with clients that
\* connect, type and go away.
ShutNext ==
    \/ \E u \in Users : ServeWS(u)
    \/ \E s \in Sessions : HubRegister(s)
    \/ \E s \in Sessions : HubUnregister(s)
    \/ HubBroadcast
    \/ Shutdown
    \/ \E s \in Sessions : WritePump(s)
    \/ \E s \in Sessions : WritePumpErr(s)
    \/ \E s \in Sessions : ReadErr(s)
    \/ \E s \in Sessions, r \in Rooms : HandleTyping(s, r, TRUE)
    \/ \E s \in Sessions : BroadcastToRoom(s)

ShutSpec == InitJoined /\ [][ShutNext]_vars /\ HubFairness /\ PumpFairness

(* ------------------------------ properties ----------------------------- *)

\* The Session has been through the register case of Hub.Run.
Registered(s) == pc[s] \in {"read", "bcast", "unregister", "closed"}

\* Hub.clients points at the Session.
Mapped(s) == sessUser[s] \in Users /\ clients[sessUser[s]] = s

\* The step is Hub.Run receiving a broadcast.
HubBroadcastStep == hubSeq' = hubSeq + 1

\* The frame Hub.Run enqueues in a HubBroadcastStep.
Enqueued == [Head(broadcast).data EXCEPT !.n = hubSeq + 1]

\* The step appends frame f to the Session's queue.
Got(s, f) == send'[s] = Append(send[s], f)

\* The step closes the Session's queue.
Closes(s) == closed'[s] /\ ~closed[s]

\* The Session passes the checks of the broadcast loop for msg.
PassesChecks(s, msg) ==
    /\ Mapped(s)
    /\ msg.room \in rooms[s]
    /\ sessUser[s] # msg.exclude

\* The tagged copies of broadcast frames in a queue.
RoomFramesOf(s) == {i \in DOMAIN send[s] : send[s][i].n > 0}

C1_OneActive ==
    /\ \A s \in Sessions : (Registered(s) /\ ~closed[s]) => Mapped(s)
    /\ \A u \in Users : clients[u] # NoClient => sessUser[clients[u]] = u

C1_RegisterStep ==
    \A s \in Sessions :
        (pc[s] = "register" /\ pc'[s] = "read") =>
            LET old == clients[sessUser[s]] IN
                /\ clients'[sessUser[s]] = s
                /\ old # NoClient => closed'[old]

C1_BroadcastStep ==
    \A s \in Sessions :
        (Len(send'[s]) > Len(send[s]) /\ send'[s][Len(send'[s])].n > 0) => Mapped(s)

\* C1: the clients map holds at most one Session per user_id: every registered
\* Session whose queue is open is the one the map points at.  Processing
\* register(S) for a user whose entry is S0 closes S0's queue and makes the
\* entry S, and a room broadcast is only ever enqueued on the Session the map
\* points at, so never again on a displaced S0.
C1_SingleSessionPerUser ==
    /\ []C1_OneActive
    /\ [][C1_RegisterStep /\ C1_BroadcastStep]_vars

\* C1 witness: S0 has been displaced by S and a room broadcast processed
\* afterwards sits on S's queue.
C1_Witness ==
    \E s0, s \in Sessions :
        /\ s0 # s
        /\ sessUser[s0] = sessUser[s]
        /\ closed[s0]
        /\ Mapped(s)
        /\ RoomFramesOf(s) # {}

C2_Step ==
    \A s \in Sessions :
        (pc[s] = "unregister" /\ pc'[s] = "closed") =>
            /\ Mapped(s) => (clients'[sessUser[s]] = NoClient /\ closed'[s])
            /\ \A u \in Users : clients'[u] # clients[u] => clients[u] = s
            /\ \A t \in Sessions : Closes(t) => (t = s /\ Mapped(s))

\* C2: processing unregister(S) removes the entry of S's user only when the
\* map points at S itself; the late unregister of a displaced Session leaves
\* the entry of the newer Session in place and closes no queue.
C2_UnregisterIdentity == [][C2_Step]_vars

\* C2 witness: the displaced S0's unregister has been processed after S was
\* registered (S holds the offline presence frame it produced for their
\* user) and S is still in the map with its queue open.
C2_Witness ==
    \E s0, s \in Sessions :
        /\ s0 # s
        /\ sessUser[s0] = sessUser[s]
        /\ pc[s0] = "closed"
        /\ Mapped(s)
        /\ ~closed[s]
        /\ \E i \in DOMAIN send[s] :
            /\ send[s][i].type = "presence.update"
            /\ send[s][i].user = sessUser[s]
            /\ send[s][i].arg = "offline"

C3_Step ==
    /\ HubBroadcastStep =>
        \A s \in Sessions :
            IF PassesChecks(s, Head(broadcast))
            THEN Got(s, Enqueued) \/ Closes(s)
            ELSE send'[s] = send[s] /\ closed'[s] = closed[s]
    /\ \A s \in Sessions :
        (/\ Len(send'[s]) > Len(send[s])
         /\ send'[s][Len(send'[s])].type \in RoomFrameTypes) =>
            /\ HubBroadcastStep
            /\ PassesChecks(s, Head(broadcast))
            /\ Got(s, Enqueued)

\* C3: when the Hub processes a broadcast, the Sessions it enqueues the payload
\* on (or evicts for a full queue) are exactly those in the clients map whose
\* room set holds room_id at that moment and whose user is not the excluded
\* one; and a room frame only ever enters a queue in such a step.
C3_BroadcastRecipients == [][C3_Step]_vars

\* C3 witness: the latest broadcast, a typing.update of user t, is on the
\* queue of s and not on the queue of t's own mapped, subscribed Session.
C3_Witness ==
    \E s, t \in Sessions :
        /\ s # t
        /\ Mapped(s)
        /\ Mapped(t)
        /\ \E i \in DOMAIN send[s] :
            /\ send[s][i].type = "typing.update"
            /\ send[s][i].user = sessUser[t]
            /\ send[s][i].n = hubSeq
            /\ send[s][i].room \in rooms[t]
        /\ \A j \in DOMAIN send[t] : send[t][j].n # hubSeq

C4_Step ==
    HubBroadcastStep =>
        \A s \in Sessions :
            PassesChecks(s, Head(broadcast)) =>
                IF Len(send[s]) = SendCap
                THEN /\ closed'[s]
                     /\ clients'[sessUser[s]] = NoClient
                     /\ send'[s] = send[s]
                ELSE /\ Got(s, Enqueued)
                     /\ clients'[sessUser[s]] = s
                     /\ ~closed'[s]

\* C4: an eligible recipient whose queue holds exactly its capacity when the
\* Hub processes a room broadcast is closed and removed from the map without
\* getting the frame; every eligible recipient holding fewer frames gets the
\* frame and stays in the map.
C4_EvictAtCapacity == [][C4_Step]_vars

\* C4 witness: s was evicted by the latest broadcast (its queue is full and
\* closed while its read loop runs and no other Session of its user exists)
\* and t, eligible too, holds that broadcast's frame.
C4_Witness ==
    \E s, t \in Sessions :
        /\ s # t
        /\ pc[s] = "read"
        /\ closed[s]
        /\ Len(send[s]) = SendCap
        /\ \A x \in Sessions \ {s} : sessUser[x] # sessUser[s]
        /\ \A j \in DOMAIN send[s] : send[s][j].n # hubSeq
        /\ Mapped(t)
        /\ \E i \in DOMAIN send[t] : send[t][i].n = hubSeq

C5_Ordered ==
    \A s \in Sessions :
        \A i, j \in RoomFramesOf(s) : i < j => send[s][i].n < send[s][j].n

C5_Step ==
    \A s \in Sessions :
        \/ send'[s] = send[s]
        \/ /\ wp[s] = "run"
           /\ send[s] # <<>>
           /\ send'[s] = Tail(send[s])
        \/ /\ Len(send'[s]) = Len(send[s]) + 1
           /\ SubSeq(send'[s], 1, Len(send[s])) = send[s]

\* C5: a Session's queue changes only by a frame entering at its tail or by
\* its write loop taking the frame at its head, so the frames the write loop
\* emits are the enqueued ones in enqueue order, none twice; and of two
\* broadcasts the Hub dequeues in the order b1, b2, b1's frame is ahead of
\* b2's on every queue that holds both.
C5_Fifo == []C5_Ordered /\ [][C5_Step]_vars

\* C5 witness: a queue holds the frames of the Hub's first and second
\* broadcast, in that order.
C5_Witness ==
    \E s \in Sessions :
        \E i, j \in DOMAIN send[s] :
            i < j /\ send[s][i].n = 1 /\ send[s][j].n = 2

C6_NoExclusion ==
    /\ \A i \in DOMAIN broadcast :
        broadcast[i].data.type = "message.new" =>
            broadcast[i].exclude = "" /\ broadcast[i].room = broadcast[i].data.room
    /\ \A s \in Sessions :
        pending[s].data.type = "message.new" =>
            pending[s].exclude = "" /\ pending[s].room = pending[s].data.room

C6_HubStep ==
    (HubBroadcastStep /\ Head(broadcast).data.type = "message.new") =>
        \A s \in Sessions :
            Mapped(s) =>
                IF Head(broadcast).room \in rooms[s]
                THEN Len(send[s]) < SendCap => Got(s, Enqueued)
                ELSE send'[s] = send[s]

\* C6 as stated: when the Hub processes the message.new of an appended
\* message, the sender's own live Session and every live Session of a
\* persisted member of the room get the frame, if their queue is not full.
C6_Original ==
    [][(HubBroadcastStep /\ Head(broadcast).data.type = "message.new") =>
          \A s \in Sessions :
              (/\ Mapped(s)
               /\ \/ sessUser[s] = Head(broadcast).data.user
                  \/ <<Head(broadcast).room, sessUser[s]>> \in members
               /\ Len(send[s]) < SendCap) => Got(s, Enqueued)]_vars

\* C6 amended: the message.new of an appended message is submitted with no
\* exclusion, and when the Hub processes it every live Session whose
\* subscribed room set holds the room, the sender's included, gets the frame
\* if its queue is not full; a live Session whose set lacks the room gets
\* nothing, whether its user is the sender or a persisted member.
C6_SubscribedReceive == []C6_NoExclusion /\ [][C6_HubStep]_vars

\* C6 witness: the sender's Session and another user's Session both hold the
\* same message.new.
C6_Witness ==
    \E s, t \in Sessions :
        /\ s # t
        /\ \E i \in DOMAIN send[s], j \in DOMAIN send[t] :
            /\ send[s][i].type = "message.new"
            /\ send[s][i].user = sessUser[s]
            /\ send[t][j] = send[s][i]
            /\ sessUser[t] # sessUser[s]

NotMemberError == NewWSMessage("error", "", "", "NOT_MEMBER", 0)

\* The step is Session s handling a message.send for a room its user is not
\* a persisted member of.
NonMemberSend(s, r) ==
    /\ HandleSendMessage(s, r, "hi")
    /\ <<r, sessUser[s]>> \notin members

C7_Contained(s) ==
    /\ \A t \in Sessions \ {s} : send'[t] = send[t]
    /\ messages' = messages
    /\ broadcast' = broadcast
    /\ pending' = pending

\* C7 as stated: a message.send by a non-member puts exactly one NOT_MEMBER
\* error frame on the sender's queue, appends no message, submits no
\* broadcast and enqueues nothing on any other Session.
C7_Original ==
    [][\A s \in Sessions, r \in Rooms :
          NonMemberSend(s, r) => (Got(s, NotMemberError) /\ C7_Contained(s))]_vars

\* C7 amended: a message.send by a non-member appends no message, submits no
\* broadcast and enqueues nothing on any other Session; it puts one NOT_MEMBER
\* error frame on the sender's own queue when that queue is open and below
\* capacity, drops the frame when the queue is full, and panics on the send
\* when the Hub has already closed the queue.
C7_NotMember ==
    [][\A s \in Sessions, r \in Rooms :
          NonMemberSend(s, r) =>
              /\ C7_Contained(s)
              /\ send'[s] = IF ~closed[s] /\ Len(send[s]) < SendCap
                            THEN Append(send[s], NotMemberError)
                            ELSE send[s]
              /\ closed[s] <=> panic' = "send on closed channel"]_vars

\* C7 witness: a Session whose user is no member of r1 holds the NOT_MEMBER
\* error frame.
C7_Witness ==
    \E s \in Sessions :
        /\ Registered(s)
        /\ <<"r1", sessUser[s]>> \notin members
        /\ \E i \in DOMAIN send[s] : send[s][i] = NotMemberError

\* C8 as stated: a frame of a message.send, typing, message.read or room.leave
\* operation is delivered to a room's subscribed Sessions only if the issuing
\* user was a persisted member of the room when the operation ran.
C8_MembersOnly ==
    [][(/\ HubBroadcastStep
        /\ Head(broadcast).data.type \in {"message.new", "typing.update",
                                          "read_receipt.update", "room.member_left"}
        /\ \E s \in Sessions : Got(s, Enqueued)) => Head(broadcast).byMember]_vars

\* C9 as stated: the subscribed room set of every live Session is a subset of
\* its user's persisted memberships.
C9_SubsetOfMemberships ==
    \A s \in Sessions : Mapped(s) => rooms[s] \subseteq GetRoomsForUser(sessUser[s])

\* C10 as stated: every message.new on a Session's queue is of a message that
\* was inserted while the Session's user was a persisted member of its room.
C10_MemberAtAppend ==
    \A s \in Sessions :
        \A i \in DOMAIN send[s] :
            send[s][i].type = "message.new" => sessUser[s] \in atAppend[send[s][i].num]

\* C11 as stated: last_read_at of a membership never falls behind a timestamp
\* a message.read has stored for it: it is the maximum of the timestamps
\* submitted, in whatever order they were applied.
C11_MaxOfSubmitted ==
    \A p \in members : lastRead[p] >= readAt[p]

\* C12 as stated: once a user's second Session is registered and the
\* unregister of the first, displaced, Session has been processed, the last
\* presence.update broadcast for the user has status online.
C12_FinalOnline ==
    \A s0, s \in Sessions :
        (/\ s0 < s
         /\ sessUser[s0] = sessUser[s]
         /\ Mapped(s)
         /\ pc[s0] = "closed") => presence[sessUser[s]] = "online"

\* C13 as stated: an unregister that fails the identity check, because the
\* Session was displaced or evicted, broadcasts no presence.update: no queue
\* grows and the last status broadcast for the user stays as it was.
C13_OfflineOnlyOnRemoval ==
    [][\A s \in Sessions :
          (HubUnregister(s) /\ clients[sessUser[s]] # s) =>
              (send' = send /\ presence' = presence)]_vars

\* The step is the recount of message k calling SendToUser and the frame
\* going onto a queue.
RecountEnqueues(k) == sendUnreadUpdatesSend(k) /\ send' # send

\* C14 as stated: when the recount of a message enqueues its unread.update on
\* a member's Session, the message.new of the same message is no longer
\* waiting in the Hub's channel: the Hub has processed it before.
C14_NewBeforeUnread ==
    [][\A k \in UnreadTasks :
          RecountEnqueues(k) =>
              \A i \in DOMAIN broadcast :
                  ~(/\ broadcast[i].data.type = "message.new"
                    /\ broadcast[i].data.num = k)]_vars

\* The members of the task's room other than its sender.
C15_Others(task) == {u \in Users : <<task.room, u>> \in members} \ {task.sender}

C15_NeverSender ==
    \A task \in unread : task.sender \notin task.todo /\ task.target # task.sender

C15_Step ==
    \A k \in UnreadTasks :
        /\ sendUnreadUpdates(k) =>
              IF C15_Others(TaskOf(k)) = {}
              THEN ~\E task \in unread' : task.id = k
              ELSE \E task \in unread' :
                      task.id = k /\ task.todo = C15_Others(TaskOf(k))
        /\ sendUnreadUpdatesCount(k) =>
              \E task \in unread' :
                  /\ task.id = k
                  /\ task.target \in TaskOf(k).todo
                  /\ task.todo = TaskOf(k).todo \ {task.target}
                  /\ task.count = GetUnreadCount(task.room, task.target)
        /\ sendUnreadUpdatesSend(k) =>
              \A s \in Sessions :
                  send'[s] =
                      IF /\ Mapped(s)
                         /\ sessUser[s] = TaskOf(k).target
                         /\ Len(send[s]) < SendCap
                      THEN Append(send[s],
                               NewWSMessage("unread.update", TaskOf(k).room, "", "",
                                            TaskOf(k).count))
                      ELSE send[s]

C16_CountAfterRead ==
    [][\A k \in UnreadTasks :
          RecountEnqueues(k) =>
              TaskOf(k).asOf >= readAt[<<TaskOf(k).room, TaskOf(k).target>>]]_vars

\* The step puts a read_receipt.update into the Hub's channel: the
\* BroadcastToRoom call of HandleMessageRead returns.
ReceiptSubmitted ==
    /\ Len(broadcast') = Len(broadcast) + 1
    /\ broadcast'[Len(broadcast')].data.type = "read_receipt.update"

\* The reader and the room of the receipt of a ReceiptSubmitted step.
Reader == broadcast'[Len(broadcast')].data.user
ReadRoom == broadcast'[Len(broadcast')].room

C17_Receipts ==
    /\ \A s \in Sessions : \A i \in DOMAIN send[s] :
          send[s][i].type = "read_receipt.update" => send[s][i].user # sessUser[s]
    /\ \A i \in DOMAIN broadcast :
          broadcast[i].data.type = "read_receipt.update" =>
              /\ broadcast[i].exclude = broadcast[i].data.user
              /\ broadcast[i].room = broadcast[i].data.room
    /\ \A s \in Sessions :
          pending[s].data.type = "read_receipt.update" =>
              /\ pending[s].exclude = sessUser[s]
              /\ pending[s].data.user = sessUser[s]

C17_Step ==
    ReceiptSubmitted =>
        /\ broadcast' = Append(broadcast, broadcast'[Len(broadcast')])
        /\ \A s \in Sessions :
              /\ sessUser[s] # Reader => send'[s] = send[s]
              /\ (Mapped(s) /\ sessUser[s] = Reader /\ Len(send[s]) < SendCap) =>
                    Got(s, NewWSMessage("unread.update", ReadRoom, "", "", 0))

\* C17: a message.read submits one read_receipt.update{room_id, user_id,
\* last_read_at} broadcast that excludes the reader, so the reader's Session
\* never holds its own receipt, and sends unread.update{room_id, count: 0}
\* to the reader's Session and to no other user's.
C17_ReadReceipt == []C17_Receipts /\ [][C17_Step]_vars

\* C17 witness: another user's Session holds the reader's receipt while the
\* reader's Session holds the count-0 unread.update.
C17_Witness ==
    \E s, x \in Sessions :
        /\ sessUser[s] # sessUser[x]
        /\ \E i \in DOMAIN send[x] :
            send[x][i].type = "read_receipt.update" /\ send[x][i].user = sessUser[s]
        /\ \E j \in DOMAIN send[s] :
            send[s][j] = NewWSMessage("unread.update", "r1", "", "", 0)

\* The step attempts a non-blocking enqueue on the Session's queue.
EnqueueAttempt(s) ==
    \/ HubBroadcastStep /\ s \in Eligible(Head(broadcast))
    \/ /\ \E x \in Sessions : HubRegister(x) \/ HubUnregister(x)
       /\ s \in LiveSessions(clients')
    \/ HandlePing(s)
    \/ \E r \in Rooms : NonMemberSend(s, r)
    \/ \E k \in UnreadTasks :
          sendUnreadUpdatesSend(k) /\ clients[TaskOf(k).target] = s
    \/ ReceiptSubmitted /\ clients[Reader] = s

\* C18 as stated: whenever a non-blocking enqueue of any kind finds the
\* target Session's queue full, the Session is evicted: its queue is closed
\* and it is removed from the clients map.
C18_EvictWhenFull ==
    [][\A s \in Sessions :
          (/\ panic' = ""
           /\ ~closed[s]
           /\ Len(send[s]) >= SendCap
           /\ EnqueueAttempt(s)) => (closed'[s] /\ ~Mapped(s)')]_vars

\* What a SendToUser(u, f) call does to the Hub and the queues.
C19_Effect(u, f) ==
    /\ clients' = clients
    /\ closed' = closed
    /\ send' = IF clients[u] # NoClient /\ Len(send[clients[u]]) < SendCap
               THEN [send EXCEPT ![clients[u]] = Append(@, f)]
               ELSE send

C20_HubProgress ==
    /\ \A s \in Sessions :
          /\ (pc[s] = "register") ~> (pc[s] # "register")
          /\ (pc[s] = "unregister") ~> (pc[s] = "closed")
          /\ (pc[s] = "bcast") ~> (pc[s] # "bcast")
    /\ \A n \in 0 .. MaxOps :
          (hubSeq = n /\ broadcast # <<>>) ~> (hubSeq > n)

\* Once writePump has returned and closed the transport the read loop takes
\* no further frame, and a Session whose unregister has been received has no
\* open transport.
C21_TornDown ==
    \A s \in Sessions :
        /\ wp[s] = "exit" => ~CanRead(s)
        /\ pc[s] = "closed" => ~ConnOpen(s)
        /\ pc[s] \in {"unborn", "register"} => wp[s] = "unborn"

C21_Step ==
    \A s \in Sessions :
        /\ (pc'[s] = "unregister" /\ pc[s] # "unregister") =>
              (pc[s] = "read" /\ ReadErr(s))
        /\ pc[s] = "unregister" => pc'[s] \in {"unregister", "closed"}
        /\ pc[s] = "closed" => pc'[s] = "closed"
        /\ (wp'[s] = "exit" /\ wp[s] # "exit") => pc'[s] = pc[s]

C22_Closed(s) ==
    /\ pc[s] = "closed"
    /\ closed[s]
    /\ wp[s] = "exit"
    /\ ~Mapped(s)

\* Only the register case puts a Session in Hub.clients.
C22_Step ==
    \A s \in Sessions :
        (sessUser[s] \in Users /\ clients'[sessUser[s]] = s) =>
            (Mapped(s) \/ pc[s] = "register")

\* C22: a Session whose read loop or write loop has exited is eventually
\* CLOSED (unregister received by the Hub, outbound queue closed, write loop
\* returned, not in Hub.clients), and a Session that has left Hub.clients is
\* never put back.
C22_EventuallyClosed ==
    /\ \A s \in Sessions :
          (pc[s] = "unregister" \/ wp[s] = "exit") ~> C22_Closed(s)
    /\ [][C22_Step]_vars

\* The step is main's call of Hub.Shutdown.
C23_ShutdownStep == ~shut /\ shut'

\* C23: Hub.Shutdown closes the queue of every Session in Hub.clients, and
\* every Session it closed has, eventually, a write loop that has returned and
\* a read loop that has exited and sent its unregister to the Hub.
C23_Shutdown ==
    /\ [][C23_ShutdownStep =>
            \A s \in LiveSessions(clients) : closed'[s]]_vars
    /\ \A s \in Sessions :
          (shut /\ Mapped(s) /\ closed[s]) ~>
              (wp[s] = "exit" /\ pc[s] \in {"unregister", "closed"})

\* The broadcast HandleTyping hands to the Hub.
C24_Submitted(s, r, b) ==
    [BroadcastMessage(r, TypingUpdate(r, sessUser[s], b), sessUser[s])
        EXCEPT !.byMember = <<r, sessUser[s]>> \in members]

\* A typing.start or typing.stop touches no table and no queue, and puts one
\* typing.update excluding the sender in Hub.broadcast, or leaves the read
\* loop blocked sending it.
C24_HandlerStep ==
    \A s \in Sessions, r \in Rooms, b \in BOOLEAN :
        HandleTyping(s, r, b) =>
            /\ UNCHANGED <<dbVars, send, rooms, unread>>
            /\ \/ /\ broadcast' = Append(broadcast, C24_Submitted(s, r, b))
                  /\ pending' = pending
               \/ /\ pending' = [pending EXCEPT ![s] = C24_Submitted(s, r, b)]
                  /\ broadcast' = broadcast

\* Hub.Run receiving a typing.update enqueues it on every other user's mapped,
\* subscribed Session with buffer space, and on no Session of the sender.
C24_HubStep ==
    (HubBroadcastStep /\ Head(broadcast).data.type = "typing.update") =>
        \A s \in Sessions :
            IF sessUser[s] = Head(broadcast).data.user
            THEN send'[s] = send[s]
            ELSE (Mapped(s) /\ Head(broadcast).room \in rooms[s]
                    /\ HasRoom(send, s)) => Got(s, Enqueued)

\* No Session holds a typing.update of its own user.
C24_NeverSender ==
    \A s \in Sessions : \A i \in 1 .. Len(send[s]) :
        send[s][i].type = "typing.update" => send[s][i].user # sessUser[s]

\* C24: typing.start and typing.stop read and write no storage and submit one
\* typing.update{room, user, is_typing} broadcast excluding the sender: the
\* other subscribed Sessions are enqueued it, the sender's Session never is.
C24_Typing ==
    /\ []C24_NeverSender
    /\ [][C24_HandlerStep /\ C24_HubStep]_vars

\* C24 witness: u2's Session holds the typing.update that u1's typing.stop
\* produced, while u1's Session is registered and subscribed to the room.
C24_Witness ==
    \E s, t \in Sessions :
        /\ sessUser[s] = "u1" /\ Mapped(s) /\ "r1" \in rooms[s]
        /\ sessUser[t] = "u2"
        /\ \E i \in 1 .. Len(send[t]) :
              /\ send[t][i].type = "typing.update"
              /\ send[t][i].user = "u1"
              /\ send[t][i].arg = "false"

\* A room.join makes the user a member and the Session subscribed; when the
\* row exists it is left as it is, last_read_at included, when the room is in
\* the Session's set the set is left as it is, and in either case no error
\* is raised and no frame is put on the sender's queue.
C25_Step ==
    \A s \in Sessions, r \in Rooms :
        HandleRoomJoin(s, r) =>
            LET u == sessUser[s] IN
            /\ members' = members \cup {<<r, u>>}
            /\ rooms' = [rooms EXCEPT ![s] = rooms[s] \cup {r}]
            /\ <<r, u>> \in members =>
                  (members' = members /\ lastRead' = lastRead)
            /\ r \in rooms[s] => rooms' = rooms
            /\ send' = send
            /\ panic' = panic
            /\ \/ /\ Len(broadcast') = Len(broadcast) + 1
                  /\ broadcast'[Len(broadcast')].data =
                        NewWSMessage("room.member_joined", r, u, "", 0)
               \/ /\ broadcast' = broadcast
                  /\ pending'[s].data =
                        NewWSMessage("room.member_joined", r, u, "", 0)

\* C25: a second room.join(R) by a Session leaves the persisted membership of
\* (R, user) and the Session's room set as the first one left them; it only
\* submits one more room.member_joined broadcast.
C25_JoinIdempotent == [][C25_Step]_vars

\* C25 witness: non-member u2 has joined r1 twice over one Session: the
\* room.member_joined of the first join is on its queue and that of the
\* second is in the Hub's channel.
C25_Witness ==
    \E s \in Sessions :
        /\ sessUser[s] = "u2"
        /\ "r1" \in rooms[s]
        /\ <<"r1", "u2">> \in members
        /\ \E i \in 1 .. Len(send[s]) :
              send[s][i].type = "room.member_joined" /\ send[s][i].user = "u2"
        /\ broadcast # <<>>
        /\ Head(broadcast).data.type = "room.member_joined"
        /\ Head(broadcast).data.user = "u2"

\* Client.rooms is set when ServeWS constructs the Session and afterwards
\* changed by that Session's room.join, which adds the room, and room.leave,
\* which removes it, only.
C26_RoomsStep ==
    \A s \in Sessions :
        /\ \A r \in Rooms : HandleRoomJoin(s, r) => r \in rooms'[s]
        /\ \A r \in Rooms : HandleRoomLeave(s, r) => r \notin rooms'[s]
        /\ rooms'[s] # rooms[s] =>
              \/ pc[s] = "unborn" /\ pc'[s] = "register"
              \/ \E r \in Rooms :
                    HandleRoomJoin(s, r) /\ rooms'[s] = rooms[s] \cup {r}
              \/ \E r \in Rooms :
                    HandleRoomLeave(s, r) /\ rooms'[s] = rooms[s] \ {r}

\* Hub.Run receiving a broadcast enqueues it on a Session only if the room is
\* in the Session's set at that moment, and does enqueue it on every such
\* Session that is in the map, is not the excluded user's and has buffer space.
C26_HubStep ==
    HubBroadcastStep =>
        \A s \in Sessions :
            LET msg == Head(broadcast) IN
            /\ send'[s] # send[s] =>
                  (msg.room \in rooms[s] /\ Got(s, Enqueued))
            /\ (/\ msg.room \in rooms[s]
                /\ Mapped(s)
                /\ sessUser[s] # msg.exclude
                /\ HasRoom(send, s)) => Got(s, Enqueued)

\* C26 as stated: a mapped Session is enqueued a room's broadcast exactly when
\* the room is in its set while the Hub processes the broadcast.
C26_Original ==
    [][HubBroadcastStep =>
          \A s \in Sessions :
              Mapped(s) =>
                  (Got(s, Enqueued) <=> Head(broadcast).room \in rooms[s])]_vars

\* C26: per room a Session's subscription is absent or present; room.join
\* makes it present, room.leave makes it absent and nothing else changes it
\* after construction.  A broadcast is enqueued on the Session only if the
\* subscription is present when the Hub processes it, and then whenever the
\* Session is in the map, is not the excluded user's and has buffer space; so
\* no broadcast processed after the leave reaches the Session.
C26_Subscription == [][C26_RoomsStep /\ C26_HubStep]_vars

\* C26 witness: u1's Session, registered and still holding its first frame,
\* has left r1 and the Hub has since processed the room.member_left broadcast
\* of that leave, which is not on the Session's queue.
C26_Witness ==
    \E s \in Sessions :
        /\ sessUser[s] = "u1"
        /\ Mapped(s)
        /\ "r1" \notin rooms[s]
        /\ <<"r1", "u1">> \notin members
        /\ hubSeq >= 1
        /\ broadcast = <<>>
        /\ pending[s] = NoBroadcast
        /\ send[s] # <<>>
        /\ send[s][1] = NewWSMessage("presence.update", "", "u1", "online", 0)
        /\ \A i \in 1 .. Len(send[s]) : send[s][i].type \notin RoomFrameTypes

\* The error frame sendError builds for a code.
ErrorFrame(code) == NewWSMessage("error", "", "", code, 0)

\* The step is HandleSendMessage of Session s on a payload with empty content
\* or empty room_id.
C27_InvalidSend(s) ==
    \E r \in Rooms \cup {""}, c \in Contents \cup {""} :
        /\ r = "" \/ c = ""
        /\ HandleSendMessage(s, r, c)

\* C27 as stated: every such message.send puts an INVALID_PAYLOAD error frame
\* on the sender's queue.
C27_Original ==
    [][\A s \in Sessions :
          C27_InvalidSend(s) => Got(s, ErrorFrame("INVALID_PAYLOAD"))]_vars

\* C27: a message.send with empty content or empty room_id, from a member or
\* not, changes no table, submits no broadcast, starts no recount and touches
\* no other Session's queue; the sender's queue gets one error frame with code
\* INVALID_PAYLOAD when it is open and has space, nothing when it is full, and
\* the send panics when the Hub has closed the queue.
C27_InvalidPayload ==
    [][\A s \in Sessions :
          C27_InvalidSend(s) =>
              /\ UNCHANGED <<dbVars, broadcast, pending, unread, rooms, hubSeq>>
              /\ \A t \in Sessions \ {s} : send'[t] = send[t]
              /\ IF closed[s] THEN panic' # "" /\ send' = send
                 ELSE IF HasRoom(send, s)
                 THEN Got(s, ErrorFrame("INVALID_PAYLOAD")) /\ panic' = panic
                 ELSE send' = send /\ panic' = panic]_vars

\* C27 witness: non-member u2 holds an INVALID_PAYLOAD error frame and no
\* message has been stored or broadcast.
C27_Witness ==
    \E s \in Sessions :
        /\ sessUser[s] = "u2"
        /\ <<"r1", "u2">> \notin members
        /\ \E i \in 1 .. Len(send[s]) : send[s][i] = ErrorFrame("INVALID_PAYLOAD")
        /\ messages = <<>>
        /\ hubSeq = 0
        /\ broadcast = <<>>

\* Handling the frame reaches the storage call db, which returns an error.
C28_Fails(s, msg, db) ==
    /\ msg.wellformed
    /\ msg.decodes
    /\ \/ /\ msg.type = "message.send"
          /\ msg.room # "" /\ msg.content # ""
          /\ \/ db = "IsRoomMember"
             \/ db = "CreateMessage" /\ IsRoomMember(msg.room, sessUser[s])
       \/ msg.type = "room.join" /\ db = "AddRoomMember"
       \/ msg.type = "room.leave" /\ db = "RemoveRoomMember"
       \/ msg.type = "message.read" /\ msg.stamp.rfc3339 /\ db = "UpdateLastRead"

\* C28: when a storage call fails inside a handler (membership check or
\* message insert of message.send, member insert of room.join, member delete
\* of room.leave, last-read update of message.read), the sender, its queue
\* being open and below capacity, is enqueued an error frame with code
\* INTERNAL_ERROR, no other Session's queue changes and no Session's room set
\* changes.
C28_InternalError ==
    [][\A s \in Sessions, msg \in InboundFrames, db \in DBFailures :
          (C28_Fails(s, msg, db) /\ readPump(s, msg, db)) =>
              /\ (~closed[s] /\ HasRoom(send, s)) =>
                    Got(s, ErrorFrame("INTERNAL_ERROR"))
              /\ \A t \in Sessions \ {s} : send'[t] = send[t]
              /\ rooms' = rooms]_vars

\* The frame is not JSON, has a type tag handleMessage has no case for, has a
\* payload that does not decode, or is a message.read whose timestamp is not
\* RFC 3339.
C29_Bad(msg) ==
    \/ ~msg.wellformed
    \/ msg.type \notin PayloadTypes \cup {"ping"}
    \/ msg.type \in PayloadTypes /\ ~msg.decodes
    \/ msg.type = "message.read" /\ ~msg.stamp.rfc3339

\* C29: an inbound frame that is malformed JSON, has an unknown type tag, has
\* an undecodable payload or is a message.read with an unparseable timestamp
\* is dropped silently: no table, no queue, no room set, no Hub state and no
\* pending broadcast changes, nothing panics, and the read loop stays at its
\* read, whichever storage call would fail.
C29_SilentDrop ==
    [][\A s \in Sessions, msg \in InboundFrames, db \in DBFailures :
          (C29_Bad(msg) /\ readPump(s, msg, db)) =>
              /\ UNCHANGED <<dbVars, hubVars, send, rooms, closed, pending,
                             unread, panic, wp, sessUser, nconn>>
              /\ pc'[s] = "read"
              /\ pc' = pc]_vars

\* C29 witness: a registered Session has had two frames dropped, its queue
\* holds its first frame only, and nothing has been stored or broadcast.
C29_Witness ==
    \E s \in Sessions :
        /\ Mapped(s)
        /\ pc[s] = "read"
        /\ drops = 2
        /\ send[s] = <<NewWSMessage("presence.update", "", sessUser[s], "online", 0)>>
        /\ messages = <<>>
        /\ members = {<<"r1", "u1">>}
        /\ hubSeq = 0
        /\ broadcast = <<>>

\* C30: an upgrade request without a token, or with a token that does not
\* verify against the secret, constructs no Session, sends nothing on
\* Hub.register and leaves Hub.clients, every queue (so every presence
\* broadcast) and every table as they were.
C30_Unauthenticated ==
    [][\A tok \in Tokens :
          ((tok = NoToken \/ tok.key # "secret") /\ ServeWSRequest(tok)) =>
              UNCHANGED <<sessVars, hubVars, dbVars, unread, panic>>]_vars

\* C30 witness: two upgrade requests have been refused and no Session exists.
C30_Witness ==
    /\ nops = 2
    /\ drops = 0
    /\ nconn = 0
    /\ \A s \in Sessions : pc[s] = "unborn"
    /\ \A u \in Users : clients[u] = NoClient

\* C31: a Session is handed to the Hub whether or not the membership lookup
\* of ServeWS succeeded, and after a successful room.join its room set holds
\* every room its user is a persisted member of.
C31_JoinRefills ==
    [][\A s \in Sessions, r \in AllRooms :
          HandleRoomJoin(s, r) =>
              {q \in AllRooms : <<q, sessUser[s]>> \in members'} \subseteq rooms'[s]]_vars

\* C34: no send is ever attempted on a closed outbound queue, by the Hub
\* (presence and room broadcasts), by SendToUser, by sendError or by the pong
\* reply: the Go runtime never raises "send on closed channel".
C34_OpenAtSend == panic # "send on closed channel"

\* C35: no outbound queue is closed twice, whatever the order of register
\* displacement, unregister, broadcast eviction and Hub.Shutdown: the Go
\* runtime never raises "close of closed channel".
C35_ClosedOnce == panic # "close of closed channel"

\* C36: a registered Session is in Hub.clients if and only if its outbound
\* queue is open.
C36_MappedIffOpen ==
    \A s \in Sessions : Registered(s) => (Mapped(s) <=> ~closed[s])

\* The Session has been closed by the Hub, its read loop has not yet handed it
\* back, and its user has no Session in Hub.clients: the state a broadcast
\* eviction leaves behind until the user comes back.
C37_Evicted(s, u) ==
    /\ sessUser[s] = u
    /\ pc[s] \in {"read", "bcast", "unregister"}
    /\ closed[s]
    /\ clients[u] = NoClient

\* C37: once a Session has been evicted by a room broadcast, then unless its
\* user reconnects the Hub eventually broadcasts presence offline for that
\* user, so that the last presence status sent out for the user agrees with
\* the user's absence from Hub.clients.
C37_EvictedGoesOffline ==
    \A s \in Sessions, u \in Users :
        C37_Evicted(s, u) ~> (presence[u] = "offline" \/ clients[u] # NoClient)

\* The step appends an unread.update to the Session's queue outside the
\* recount loop: the SendToUser that ends HandleMessageRead.
C38_MarkReadFrame(s) ==
    /\ unread' = unread
    /\ Len(send'[s]) = Len(send[s]) + 1
    /\ send'[s][Len(send'[s])].type = "unread.update"

\* C38: every unread.update carries the unread count of its room and user as
\* of the step that produces it: the recount loop takes the count from
\* GetUnreadCount, and the frame HandleMessageRead sends to the reader carries
\* the number of messages of the room that are newer than the reader's
\* last_read_at and were sent by somebody else.
C38_DefinitionalCount ==
    [][/\ \A k \in UnreadTasks :
            sendUnreadUpdatesCount(k) =>
                \E task \in unread' :
                    /\ task.id = k
                    /\ task.count = GetUnreadCount(task.room, task.target)
       /\ \A s \in Sessions :
            C38_MarkReadFrame(s) =>
                send'[s][Len(send'[s])].num =
                    Cardinality({i \in 1 .. Len(messages') :
                        /\ messages'[i].room = send'[s][Len(send'[s])].room
                        /\ messages'[i].created_at >
                             lastRead'[<<messages'[i].room, sessUser[s]>>]
                        /\ messages'[i].sender # sessUser[s]})]_vars

\* C39: the members of the dm room are the two users it was created for,
\* whatever room.join frames and REST joins other users issue with its id,
\* and no Session of another user has the dm room in its room set.
C39_DMClosed ==
    /\ \A u \in Users : <<DMRoom, u>> \in members => u \in {"u1", DMPeer}
    /\ \A s \in Sessions : DMRoom \in rooms[s] => sessUser[s] \in {"u1", DMPeer}

\* The step dispatches the close event of socket k, which is not the hook's
\* current socket.
C40_StaleClose(k) ==
    /\ k \in DOMAIN hook.socks
    /\ hook.socks[k] # "closed"
    /\ Len(hook'.socks) = Len(hook.socks)
    /\ hook'.socks[k] = "closed"
    /\ hook.ws # k

\* C40: the close event of a socket that is no longer the hook's current one
\* leaves the reconnect timer as it was and does not clear the ping interval
\* of the current socket, and no socket is ever opened by a reconnect timer
\* that such a close event armed.
C40_StaleCloseInert ==
    [][/\ \A k \in 1 .. MaxSockets :
            C40_StaleClose(k) =>
                /\ hook'.timer = hook.timer
                /\ hook'.attempts = hook.attempts
                /\ (hook.ws # 0 /\ hook.ping = hook.ws) => hook'.ping = hook.ping
       /\ (hook.timer /\ Len(hook'.socks) > Len(hook.socks) /\ ~hook'.timer) =>
            ~hook.timerStale]_vars

\* C32: the Hub's broadcast loop never reads the room set of a Session while
\* that Session's handler holds the Session's mutex and is writing the set.
C32_RoomsUnderMutex ==
    [][(broadcast # <<>> /\ (HubBroadcastStep \/ panic' # panic)) =>
          \A s \in HubReadsRooms(Head(broadcast)) : pc[s] # "write"]_vars

\* The step is the Hub's register or unregister case, the two that take h.mu
\* for writing.
C33_WriterStep ==
    \E s \in Sessions : pc[s] \in {"register", "unregister"} /\ pc'[s] # pc[s]

\* C33: Hub.clients changes only in a step that holds h.mu for writing, and
\* never while another goroutine holds h.mu for reading.
C33_WriterOnly ==
    [][clients' # clients => (C33_WriterStep /\ RLockHolders = {})]_vars

====
